---------------------------- MODULE Spec2Model ----------------------------
(***************************************************************************)
(* Model of SQSExtended (src/src/index.ts): an SQS client that offloads    *)
(* large message bodies to S3.                                             *)
(*                                                                         *)
(* Strings are TLA+ strings and keep the literals of the source.  A JS     *)
(* value that is null, undefined or '' is the empty string here wherever   *)
(* the source only tests its truthiness.  MessageAttributes is a function  *)
(* from attribute names to attribute records; the source treats an         *)
(* undefined map like the empty one at every use (lines 119, 272, 324).    *)
(* The queue (SQS) and the object store (S3) are the environment: a        *)
(* primitive is invoked by the client (it is appended to ops as pending)   *)
(* and completes later, successfully or not, in a step of its own.         *)
(***************************************************************************)
EXTENDS Integers, Sequences, FiniteSets, TLC

VARIABLES
    options,   \* the options object given to the constructor (line 49)
    store,     \* S3: function from <<Bucket, Key>> to the object's content
    queue,     \* SQS: sequence of the messages the queue holds
    ops,       \* every primitive invoked on this.sqs / this.s3, in order
    calls,     \* every call of the client's API, in order
    minted     \* number of keys v4() has produced

vars == <<options, store, queue, ops, calls, minted>>

----------------------------------------------------------------------------
(* Bounds of the model *)

MaxCalls == 1

----------------------------------------------------------------------------
(* Constants of the source *)

DEFAULT_MESSAGE_SIZE_THRESHOLD == 262144
S3_MESSAGE_KEY_MARKER == "-..s3Key..-"
S3_BUCKET_NAME_MARKER == "-..s3BucketName..-"
S3_MESSAGE_BODY_KEY == "S3MessageBodyKey"
RESERVED_ATTRIBUTE_NAME == S3_MESSAGE_BODY_KEY

----------------------------------------------------------------------------
(* JavaScript string primitives, 0-based as in the source *)

Truthy(s) == s # ""

Min(a, b) == IF a < b THEN a ELSE b
Max(a, b) == IF a > b THEN a ELSE b

\* s.substring(a, b): both ends clamped to [0, length], swapped if a > b.
Substring(s, a, b) ==
    LET ca == Max(0, Min(a, Len(s)))
        cb == Max(0, Min(b, Len(s)))
    IN  SubSeq(s, Min(ca, cb) + 1, Max(ca, cb))

\* s.substring(a)
SubstringFrom(s, a) == Substring(s, a, Len(s))

Occurrences(s, p) ==
    {i \in 0..(Len(s) - Len(p)) : SubSeq(s, i + 1, i + Len(p)) = p}

\* s.indexOf(p)
IndexOf(s, p) ==
    LET occ == Occurrences(s, p)
    IN  IF occ = {} THEN -1 ELSE CHOOSE i \in occ : \A j \in occ : i <= j

\* s.lastIndexOf(p)
LastIndexOf(s, p) ==
    LET occ == Occurrences(s, p)
    IN  IF occ = {} THEN -1 ELSE CHOOSE i \in occ : \A j \in occ : i >= j

\* Buffer.byteLength(s, 'utf8'); every string of the model is ASCII.
ByteLength(s) == Len(s)

----------------------------------------------------------------------------
(* Key codec *)

\* What '.*' can match from the start of s: '.' matches no line terminator.
FirstLine(s) ==
    IF IndexOf(s, "\n") >= 0 THEN Substring(s, 0, IndexOf(s, "\n")) ELSE s

\* getS3MessageKeyAndBucket with the parentheses left around the bucket.
getS3MessageKeyAndBucketWithParentheses(s3MessageKey) ==
    IF ~Truthy(s3MessageKey)
    THEN [threw |-> FALSE, bucketName |-> "", s3MessageKey |-> ""]
    ELSE LET line  == FirstLine(s3MessageKey)
             close == LastIndexOf(line, ")")
         IN  IF SubSeq(line, 1, 1) = "(" /\ close >= 1
             THEN [threw |-> FALSE,
                   bucketName |-> Substring(line, 0, close + 1),
                   s3MessageKey |-> SubstringFrom(line, close + 1)]
             ELSE [threw |-> TRUE, bucketName |-> "", s3MessageKey |-> ""]

\* /^\((.*)\)(.*)?/: the match lies in the first line of the string; group 1
\* is greedy, so it runs to the last ')' of that line; group 2 is the rest of
\* the line.
getS3MessageKeyAndBucket(s3MessageKey) ==
    IF ~Truthy(s3MessageKey)
    THEN [threw |-> FALSE, bucketName |-> "", s3MessageKey |-> ""]
    ELSE LET line  == FirstLine(s3MessageKey)
             close == LastIndexOf(line, ")")
         IN  IF SubSeq(line, 1, 1) = "(" /\ close >= 1
             THEN [threw |-> FALSE,
                   bucketName |-> Substring(line, 1, close),
                   s3MessageKey |-> SubstringFrom(line, close + 1)]
             ELSE [threw |-> TRUE, bucketName |-> "", s3MessageKey |-> ""]

embedS3MarkersInReceiptHandle(bucketName, s3MessageKey, receiptHandle) ==
    S3_BUCKET_NAME_MARKER \o bucketName \o S3_BUCKET_NAME_MARKER
        \o S3_MESSAGE_KEY_MARKER \o s3MessageKey \o S3_MESSAGE_KEY_MARKER \o receiptHandle

\* addS3MessageKeyAttribute without the spread of the caller's attributes.
addS3MessageKeyAttributeOnly(s3MessageKey, attributes) ==
    [n \in {S3_MESSAGE_BODY_KEY} |-> [DataType |-> "String", StringValue |-> s3MessageKey]]

addS3MessageKeyAttribute(s3MessageKey, attributes) ==
    [n \in DOMAIN attributes \cup {S3_MESSAGE_BODY_KEY} |->
        IF n = S3_MESSAGE_BODY_KEY
        THEN [DataType |-> "String", StringValue |-> s3MessageKey]
        ELSE attributes[n]]

extractBucketNameFromReceiptHandle(receiptHandle) ==
    IF IndexOf(receiptHandle, S3_BUCKET_NAME_MARKER) >= 0
    THEN Substring(receiptHandle,
                   IndexOf(receiptHandle, S3_BUCKET_NAME_MARKER) + Len(S3_BUCKET_NAME_MARKER),
                   LastIndexOf(receiptHandle, S3_BUCKET_NAME_MARKER))
    ELSE ""

extractS3MessageKeyFromReceiptHandle(receiptHandle) ==
    IF IndexOf(receiptHandle, S3_MESSAGE_KEY_MARKER) >= 0
    THEN Substring(receiptHandle,
                   IndexOf(receiptHandle, S3_MESSAGE_KEY_MARKER) + Len(S3_MESSAGE_KEY_MARKER),
                   LastIndexOf(receiptHandle, S3_MESSAGE_KEY_MARKER))
    ELSE ""

\* getOriginReceiptHandle that takes the bucket marker alone for a wrapping.
getOriginReceiptHandleAfterAnyMarker(receiptHandle) ==
    IF IndexOf(receiptHandle, S3_MESSAGE_KEY_MARKER) >= 0
    THEN SubstringFrom(receiptHandle,
                       LastIndexOf(receiptHandle, S3_MESSAGE_KEY_MARKER) + Len(S3_MESSAGE_KEY_MARKER))
    ELSE IF IndexOf(receiptHandle, S3_BUCKET_NAME_MARKER) >= 0
    THEN SubstringFrom(receiptHandle,
                       LastIndexOf(receiptHandle, S3_BUCKET_NAME_MARKER) + Len(S3_BUCKET_NAME_MARKER))
    ELSE receiptHandle

getOriginReceiptHandle(receiptHandle) ==
    IF IndexOf(receiptHandle, S3_MESSAGE_KEY_MARKER) >= 0
    THEN SubstringFrom(receiptHandle,
                       LastIndexOf(receiptHandle, S3_MESSAGE_KEY_MARKER) + Len(S3_MESSAGE_KEY_MARKER))
    ELSE receiptHandle

----------------------------------------------------------------------------
(* Size estimator *)

RECURSIVE SumOver(_, _)
SumOver(f, S) ==
    IF S = {} THEN 0
    ELSE LET x == CHOOSE y \in S : TRUE IN f[x] + SumOver(f, S \ {x})

AttributeSize(attrKey, attr) ==
    ByteLength(attrKey)
      + (IF "DataType" \in DOMAIN attr /\ Truthy(attr.DataType) THEN ByteLength(attr.DataType) ELSE 0)
      + (IF "StringValue" \in DOMAIN attr THEN ByteLength(attr.StringValue) ELSE 0)
      + (IF "BinaryValue" \in DOMAIN attr THEN ByteLength(attr.BinaryValue) ELSE 0)

getMessageAttributesSize(messageAttributes) ==
    SumOver([k \in DOMAIN messageAttributes |-> AttributeSize(k, messageAttributes[k])],
            DOMAIN messageAttributes)

EstimatedSize(message) ==
    getMessageAttributesSize(message.MessageAttributes)
      + (IF Truthy(message.MessageBody) THEN ByteLength(message.MessageBody) ELSE 0)

\* isLarge with the comparison inverted.
isLargeInverted(message, messageSizeThreshold) ==
    EstimatedSize(message) < messageSizeThreshold

\* isLarge with the threshold itself counted as large.
isLargeAtThreshold(message, messageSizeThreshold) ==
    EstimatedSize(message) >= messageSizeThreshold

isLarge(message, messageSizeThreshold) ==
    EstimatedSize(message) > messageSizeThreshold

----------------------------------------------------------------------------
(* Constructor: the options and the transforms they select *)

bucketName == IF "bucketName" \in DOMAIN options THEN options.bucketName ELSE ""

alwaysUseS3 == "alwaysUseS3" \in DOMAIN options /\ options.alwaysUseS3

\* isLarge's default parameter applies when the option is undefined.
messageSizeThreshold ==
    IF "messageSizeThreshold" \in DOMAIN options
    THEN options.messageSizeThreshold
    ELSE DEFAULT_MESSAGE_SIZE_THRESHOLD

defaultSendTransform(message) ==
    LET useS3 == alwaysUseS3 \/ isLarge(message, messageSizeThreshold)
    IN  [messageBody |-> IF useS3 THEN "" ELSE message.MessageBody,
         s3Content   |-> IF useS3 THEN message.MessageBody ELSE ""]

\* A caller's transform, after the README's example: what follows the first
\* ':' of the body is the large item and goes to the object store, what
\* precedes it stays in the queue message.
splitLargeItem(message) ==
    LET at == IndexOf(message.MessageBody, ":")
    IN  IF at < 0
        THEN [messageBody |-> message.MessageBody, s3Content |-> ""]
        ELSE [messageBody |-> Substring(message.MessageBody, 0, at),
              s3Content   |-> SubstringFrom(message.MessageBody, at + 1)]

\* The constructor with the caller's transform left out.
sendTransformDefaultOnly(message) == defaultSendTransform(message)

\* options.sendTransform || defaultSendTransform(...)
sendTransform(message) ==
    IF "sendTransform" \in DOMAIN options
    THEN splitLargeItem(message)
    ELSE defaultSendTransform(message)

\* defaultReceiveTransform that ignores the object's content.
defaultReceiveTransformBodyOnly(message, s3Content) == message.Body

\* defaultReceiveTransform that returns the object's content alone.
defaultReceiveTransformContentOnly(message, s3Content) == s3Content

\* (message, s3Content) => s3Content || message.Body
defaultReceiveTransform(message, s3Content) ==
    IF Truthy(s3Content) THEN s3Content ELSE message.Body

receiveTransform(message, s3Content) == defaultReceiveTransform(message, s3Content)

----------------------------------------------------------------------------
(* Send pipeline *)

\* uuid's v4(): a key never produced before.
v4 == "key-" \o ToString(minted + 1)

HasReserved(params) == RESERVED_ATTRIBUTE_NAME \in DOMAIN params.MessageAttributes

ExistingValue(params) ==
    LET a == params.MessageAttributes[RESERVED_ATTRIBUTE_NAME]
    IN  IF "StringValue" \in DOMAIN a THEN a.StringValue ELSE ""

\* _prepareSend that offloads again a message that already carries the
\* reserved attribute.
prepareSendIgnoringExisting(params) ==
    LET sendObj == sendTransform(params)
    IN  IF ~Truthy(sendObj.s3Content)
        THEN [threw |-> ~Truthy(sendObj.messageBody), s3MessageKey |-> "",
              sendParams |-> [params EXCEPT !.MessageBody = sendObj.messageBody],
              s3Content |-> sendObj.s3Content]
        ELSE [threw |-> FALSE, s3MessageKey |-> v4,
              sendParams |->
                  [params EXCEPT
                      !.MessageAttributes =
                          addS3MessageKeyAttribute("(" \o bucketName \o ")" \o v4,
                                                   params.MessageAttributes),
                      !.MessageBody =
                          IF Truthy(sendObj.messageBody) THEN sendObj.messageBody ELSE v4],
              s3Content |-> sendObj.s3Content]

\* The result has threw = TRUE where the source reads .StringValue of undefined.
prepareSend(params) ==
    LET sendObj == sendTransform(params)
    IN  IF ~Truthy(sendObj.s3Content) \/ HasReserved(params)
        THEN IF ~Truthy(sendObj.messageBody) /\ ~HasReserved(params)
             THEN [threw |-> TRUE, s3MessageKey |-> "", sendParams |-> params,
                   s3Content |-> sendObj.s3Content]
             ELSE [threw |-> FALSE, s3MessageKey |-> "",
                   sendParams |->
                       [params EXCEPT !.MessageBody =
                           IF Truthy(sendObj.messageBody) THEN sendObj.messageBody
                           ELSE ExistingValue(params)],
                   s3Content |-> sendObj.s3Content]
        ELSE [threw |-> FALSE, s3MessageKey |-> v4,
              sendParams |->
                  [params EXCEPT
                      !.MessageAttributes =
                          addS3MessageKeyAttribute("(" \o bucketName \o ")" \o v4,
                                                   params.MessageAttributes),
                      !.MessageBody =
                          IF Truthy(sendObj.messageBody) THEN sendObj.messageBody ELSE v4],
              s3Content |-> sendObj.s3Content]

storeS3Content(key, s3Content) ==
    [Bucket |-> bucketName, Key |-> key, Body |-> s3Content]

----------------------------------------------------------------------------
(* Primitives and promises *)

\* The positions of ops whose primitive has completed successfully.
Succeeded == {i \in 1..Len(ops) : ops[i].state = "ok"}

\* A primitive as it is invoked: pending, with the call that invoked it and
\* the primitives that had already succeeded at that moment.
InvokeAfter(svc, op, input, c, done) ==
    [svc |-> svc, op |-> op, input |-> input, state |-> "pending",
     result |-> "", call |-> c, before |-> done]

Invoke(svc, op, input, c) == InvokeAfter(svc, op, input, c, Succeeded)

\* One invocation of the function invokeFnBeforeRequest returns: new Promise
\* whose executor calls fn().  fn is the position in ops of the primitive fn()
\* invoked, 0 when fn() returned null (so that fn().then throws).
NewChain(cb, fn) ==
    [cb |-> cb, fn |-> fn,
     state |-> IF fn = 0 THEN "rejected" ELSE "pending",
     value |-> IF fn = 0 THEN "TypeError" ELSE "",
     cbCalls |-> 0, cbErr |-> "", cbData |-> "", fetch |-> <<>>, seen |-> <<>>]

\* The reactions of invokeFnBeforeRequest once fn's promise and the request's
\* promise have settled as in o (the ops after a completion).
invokeFnBeforeRequest(ch, req, o) ==
    IF ch.state # "pending" THEN ch
    ELSE IF o[ch.fn].state = "failed"
         THEN IF ch.cb
              THEN [ch EXCEPT !.state = "resolved", !.value = "",
                              !.cbCalls = @ + 1, !.cbErr = o[ch.fn].result,
                              !.cbData = "request"]
              ELSE [ch EXCEPT !.state = "rejected", !.value = o[ch.fn].result]
    ELSE IF o[ch.fn].state = "ok" /\ o[req].state = "ok"
         THEN [ch EXCEPT !.state = "resolved", !.value = o[req].result,
                         !.cbCalls = IF ch.cb THEN @ + 1 ELSE @,
                         !.cbData = IF ch.cb THEN o[req].result ELSE @]
    ELSE IF o[ch.fn].state = "ok" /\ o[req].state = "failed"
         THEN IF ch.cb
              THEN [ch EXCEPT !.state = "resolved", !.value = "",
                              !.cbCalls = @ + 1, !.cbErr = o[req].result,
                              !.cbData = "request"]
              ELSE [ch EXCEPT !.state = "rejected", !.value = o[req].result]
    ELSE ch

\* wrapRequest: sendFn(callback) when a callback is given; the wrapper's
\* send and promise are sendFn.  first is the position the first primitive
\* invoked by sendFn takes in ops; fnInvokes tells whether fn() invokes one.
wrapRequest(cb, first, fnInvokes) ==
    IF cb THEN <<NewChain(TRUE, IF fnInvokes THEN first ELSE 0)>> ELSE <<>>

----------------------------------------------------------------------------
(* The caller's inputs *)

StringAttribute(v) == [DataType |-> "String", StringValue |-> v]

NoAttributes == [n \in {} |-> StringAttribute("")]

OptionSets ==
    { [bucketName |-> "test-bucket"],
      [bucketName |-> "test-bucket", alwaysUseS3 |-> TRUE],
      [bucketName |-> "test-bucket", alwaysUseS3 |-> FALSE, messageSizeThreshold |-> 16],
      [bucketName |-> "test-bucket", alwaysUseS3 |-> TRUE, messageSizeThreshold |-> 16],
      [alwaysUseS3 |-> TRUE],
      [bucketName |-> ""] }

SendBodies == {"", "hello", "0123456789abcdef", "small message body"}

SendAttributes ==
    { NoAttributes,
      [N |-> StringAttribute("attr")],
      [Bin |-> [DataType |-> "Binary", BinaryValue |-> "01"]],
      [S3MessageBodyKey |-> StringAttribute("(other-bucket)8765-4321")] }

SendParams ==
    { [QueueUrl |-> "test-queue", MessageBody |-> b, MessageAttributes |-> a] :
        b \in SendBodies, a \in SendAttributes }

----------------------------------------------------------------------------
(* The client's API *)

Quiescent == \A i \in 1..Len(ops) : ops[i].state # "pending"

\* The caller starts a call when the previous one has nothing in flight.
CanCall(api) ==
    /\ Cardinality({c \in 1..Len(calls) : calls[c].api = api}) < MaxCalls
    /\ Quiescent

\* The caller of a round trip calls each operation of the API once.
Once(api) ==
    /\ \A c \in 1..Len(calls) : calls[c].api # api
    /\ Quiescent

NewCall(api, params, cb) ==
    [api |-> api, params |-> params, cb |-> cb, threw |-> "", returned |-> "",
     req |-> 0, s3MessageKey |-> "", chains |-> <<>>, response |-> <<>>]

\* sendMessage without the check of line 141.
MissingBucketUnchecked == FALSE

\* if (!this.bucketName)
MissingBucket == ~Truthy(bucketName)

sendMessage(params, cb) ==
    LET c    == Len(calls) + 1
        n    == Len(ops)
        prep == prepareSend(params)
        call == NewCall("sendMessage", params, cb)
        request == Invoke("sqs", "sendMessage", prep.sendParams, c)
        put  == Invoke("s3", "putObject", storeS3Content(prep.s3MessageKey, prep.s3Content), c)
        wrapped == wrapRequest(cb, n + 2, TRUE)
    IN
    /\ IF MissingBucket
       THEN /\ calls' = Append(calls,
                   [call EXCEPT !.threw = "Error: bucketName option is required for sending messages"])
            /\ UNCHANGED <<ops, minted>>
       ELSE IF prep.threw
       THEN /\ calls' = Append(calls, [call EXCEPT !.threw = "TypeError"])
            /\ UNCHANGED <<ops, minted>>
       ELSE IF ~Truthy(prep.s3MessageKey)
       THEN /\ ops' = Append(ops, request)
            /\ calls' = Append(calls, [call EXCEPT !.returned = "request", !.req = n + 1])
            /\ UNCHANGED minted
       ELSE \* line 151: the request is made; then wrapRequest(...).promise()
            /\ minted' = minted + 1
            /\ ops' = ops \o <<request>> \o [k \in 1..(Len(wrapped) + 1) |-> put]
            /\ calls' = Append(calls,
                   [call EXCEPT !.returned = "promise", !.req = n + 1,
                                !.s3MessageKey = prep.s3MessageKey,
                                !.chains = wrapped \o <<NewChain(FALSE, n + 2 + Len(wrapped))>>])
    /\ UNCHANGED <<options, store, queue>>

----------------------------------------------------------------------------
(* The environment: primitives complete *)

\* The promise reactions that run when the primitives stand as in o.
Reactions(o) ==
    [c \in DOMAIN calls |->
        IF calls[c].api \notin {"sendMessage", "deleteMessage"} THEN calls[c]
        ELSE [calls[c] EXCEPT !.chains =
                [k \in DOMAIN calls[c].chains |->
                    invokeFnBeforeRequest(calls[c].chains[k], calls[c].req, o)]]]

Completed(i, ok, result) == [ops EXCEPT ![i].state = IF ok THEN "ok" ELSE "failed",
                                        ![i].result = result]

Pending(i, op) == ops[i].state = "pending" /\ ops[i].op = op

PendingOps(op) == {i \in 1..Len(ops) : Pending(i, op)}

SqsSendMessageCompletes(i, ok) ==
    /\ Pending(i, "sendMessage")
    /\ ops' = Completed(i, ok, IF ok THEN "MessageId-" \o ToString(i) ELSE "SendMessageError")
    /\ queue' = IF ok
                THEN Append(queue, [MessageId |-> "MessageId-" \o ToString(i),
                                    ReceiptHandle |-> "",
                                    Body |-> ops[i].input.MessageBody,
                                    MessageAttributes |-> ops[i].input.MessageAttributes])
                ELSE queue
    /\ calls' = Reactions(ops')
    /\ UNCHANGED <<options, store, minted>>

PutObjectCompletes(i, ok) ==
    /\ Pending(i, "putObject")
    /\ ops' = Completed(i, ok, IF ok THEN "PutObjectOutput" ELSE "PutObjectError")
    /\ store' = IF ok
                THEN LET at == <<ops[i].input.Bucket, ops[i].input.Key>>
                     IN  [x \in DOMAIN store \cup {at} |->
                             IF x = at THEN ops[i].input.Body ELSE store[x]]
                ELSE store
    /\ calls' = Reactions(ops')
    /\ UNCHANGED <<options, queue, minted>>

----------------------------------------------------------------------------
(* Receive pipeline *)

\* message.MessageAttributes?.[S3_MESSAGE_BODY_KEY]?.StringValue
ReservedValue(message) ==
    IF S3_MESSAGE_BODY_KEY \in DOMAIN message.MessageAttributes
       /\ "StringValue" \in DOMAIN message.MessageAttributes[S3_MESSAGE_BODY_KEY]
    THEN message.MessageAttributes[S3_MESSAGE_BODY_KEY].StringValue
    ELSE ""

Decoded(message) == getS3MessageKeyAndBucket(ReservedValue(message))

IsOffloaded(message) ==
    LET d == Decoded(message) IN ~d.threw /\ Truthy(d.s3MessageKey)

\* _getS3Content that reads from the client's own bucket.
getS3ContentFromOwnBucket(bucket, key) == [Bucket |-> bucketName, Key |-> key]

getS3Content(bucket, key) == [Bucket |-> bucket, Key |-> key]

\* The messages of a response for which _processReceive fetches an object.
Fetched(resp) == {m \in 1..Len(resp) : IsOffloaded(resp[m])}

\* The position in ops of the getObject that one run of _processReceive
\* invokes for message m, when its first getObject takes position first.
FetchPosition(resp, m, first) ==
    first - 1 + Cardinality({j \in Fetched(resp) : j <= m})

\* The getObject primitives one run of _processReceive invokes, in order.
FetchOps(resp, c, done) ==
    LET Test(m) == m \in Fetched(resp)
        idx == SelectSeq([m \in 1..Len(resp) |-> m], Test)
    IN  [j \in 1..Len(idx) |->
            InvokeAfter("s3", "getObject",
                        getS3Content(Decoded(resp[idx[j]]).bucketName,
                                     Decoded(resp[idx[j]]).s3MessageKey),
                        c, done)]

\* The response after the synchronous part of one run of _processReceive:
\* the messages that are not offloaded get receiveTransform(message).
processReceiveSync(resp) ==
    [m \in 1..Len(resp) |->
        IF Decoded(resp[m]).threw \/ IsOffloaded(resp[m]) THEN resp[m]
        ELSE [resp[m] EXCEPT !.Body = receiveTransform(resp[m], "")]]

\* The per-message promises of one run of _processReceive as it starts.
processReceiveStart(resp, first) ==
    [m \in 1..Len(resp) |->
        IF Decoded(resp[m]).threw THEN [op |-> 0, state |-> "rejected"]
        ELSE IF IsOffloaded(resp[m])
             THEN [op |-> FetchPosition(resp, m, first), state |-> "pending"]
             ELSE [op |-> 0, state |-> "fulfilled"]]

\* The reactions of invokeFnAfterRequest to fn(response): Promise.all rejects
\* with err as soon as one message's promise is rejected, and is fulfilled
\* when all are. resp is the response object at that moment.
invokeFnAfterRequest(ch, resp, err) ==
    IF ch.state # "pending" THEN ch
    ELSE IF \E m \in DOMAIN ch.fetch : ch.fetch[m].state = "rejected"
         THEN IF ch.cb
              THEN [ch EXCEPT !.state = "resolved", !.value = "",
                              !.cbCalls = @ + 1, !.cbErr = err,
                              !.cbData = "response", !.seen = resp]
              ELSE [ch EXCEPT !.state = "rejected", !.value = err]
    ELSE IF \A m \in DOMAIN ch.fetch : ch.fetch[m].state = "fulfilled"
         THEN [ch EXCEPT !.state = "resolved", !.value = "response", !.seen = resp,
                         !.cbCalls = IF ch.cb THEN @ + 1 ELSE @,
                         !.cbData = IF ch.cb THEN "response" ELSE @]
    ELSE ch

\* The reaction of invokeFnAfterRequest to a failed request.
requestFailed(ch, err) ==
    IF ch.cb
    THEN [ch EXCEPT !.state = "resolved", !.value = "",
                    !.cbCalls = @ + 1, !.cbErr = err]
    ELSE [ch EXCEPT !.state = "rejected", !.value = err]

SeqOf(names) == {names[k] : k \in 1..Len(names)}

\* modifiedParams with the reserved name ahead of the caller's names.
modifiedParamsReservedFirst(params) ==
    [n \in DOMAIN params \cup {"MessageAttributeNames"} |->
        IF n = "MessageAttributeNames"
        THEN <<RESERVED_ATTRIBUTE_NAME>>
                 \o (IF n \in DOMAIN params THEN params[n] ELSE <<>>)
        ELSE params[n]]

modifiedParams(params) ==
    [n \in DOMAIN params \cup {"MessageAttributeNames"} |->
        IF n = "MessageAttributeNames"
        THEN (IF n \in DOMAIN params THEN params[n] ELSE <<>>)
                 \o <<RESERVED_ATTRIBUTE_NAME>>
        ELSE params[n]]

receiveMessage(params, cb) ==
    LET c == Len(calls) + 1
        n == Len(ops)
        request == Invoke("sqs", "receiveMessage", modifiedParams(params), c)
    IN
    /\ ops' = Append(ops, request)
    /\ calls' = Append(calls,
           [NewCall("receiveMessage", params, cb) EXCEPT
               !.returned = "promise", !.req = n + 1,
               !.chains = IF cb THEN <<NewChain(TRUE, n + 1), NewChain(FALSE, n + 1)>>
                          ELSE <<NewChain(FALSE, n + 1)>>])
    /\ UNCHANGED <<options, store, queue, minted>>

\* What the queue returns of a message it holds: the attributes asked for.
Delivered(message, names, handle) ==
    [MessageId |-> message.MessageId,
     Body |-> message.Body,
     ReceiptHandle |-> handle,
     MessageAttributes |->
         [a \in {x \in DOMAIN message.MessageAttributes : x \in SeqOf(names) \/ "All" \in SeqOf(names)}
             |-> message.MessageAttributes[a]]]

\* The request of a receiveMessage call is fulfilled with the first n messages
\* of the queue, each under the receipt handle the queue gives it, or rejected. Each chain then runs _processReceive on the
\* one response object, the callback's chain first.
SqsReceiveMessageCompletes(i, ok, n, handles) ==
    LET c     == ops[i].call
        resp0 == [m \in 1..n |->
                     Delivered(queue[m], ops[i].input.MessageAttributeNames, handles[m])]
        done  == Completed(i, ok, IF ok THEN resp0 ELSE "ReceiveMessageError")
        resp  == processReceiveSync(resp0)
        nf    == Cardinality(Fetched(resp0))
        after == Succeeded \cup {i}
        started == [k \in DOMAIN calls[c].chains |->
                       [calls[c].chains[k] EXCEPT
                           !.fetch = processReceiveStart(resp0, Len(ops) + 1 + (k - 1) * nf)]]
    IN
    /\ Pending(i, "receiveMessage")
    /\ n <= Len(queue)
    /\ ~ok => n = 0
    /\ IF ok
       THEN /\ ops' = done \o FetchOps(resp0, c, after)
                           \o (IF Len(calls[c].chains) = 2 THEN FetchOps(resp0, c, after) ELSE <<>>)
            /\ calls' = [calls EXCEPT
                   ![c].response = resp,
                   ![c].chains = [k \in DOMAIN started |->
                       invokeFnAfterRequest(started[k], resp,
                           "Error: Can not found match s3MessageKeyRegexMatch")]]
       ELSE /\ ops' = done
            /\ calls' = [calls EXCEPT
                   ![c].chains = [k \in DOMAIN @ |-> requestFailed(@[k], "ReceiveMessageError")]]
    /\ queue' = [m \in DOMAIN queue |->
                    IF ok /\ m <= n THEN [queue[m] EXCEPT !.ReceiptHandle = handles[m]]
                    ELSE queue[m]]
    /\ UNCHANGED <<options, store, minted>>

\* A getObject completes: with the object's content when the object exists,
\* or with an error. The async function that awaited it then rewrites its
\* message of the response (lines 170-172) and the chain's Promise.all reacts.
GetObjectCompletes(i, ok) ==
    LET c  == ops[i].call
        at == <<ops[i].input.Bucket, ops[i].input.Key>>
        k  == CHOOSE k \in DOMAIN calls[c].chains :
                  \E m \in DOMAIN calls[c].chains[k].fetch : calls[c].chains[k].fetch[m].op = i
        m  == CHOOSE m \in DOMAIN calls[c].chains[k].fetch : calls[c].chains[k].fetch[m].op = i
        message == calls[c].response[m]
        resp == IF ok
                THEN [calls[c].response EXCEPT
                        ![m].Body = receiveTransform(message, store[at]),
                        ![m].ReceiptHandle =
                            embedS3MarkersInReceiptHandle(at[1], at[2], message.ReceiptHandle)]
                ELSE calls[c].response
        ch == [calls[c].chains[k] EXCEPT
                  !.fetch[m].state = IF ok THEN "fulfilled" ELSE "rejected"]
    IN
    /\ Pending(i, "getObject")
    /\ ok => at \in DOMAIN store
    /\ ops' = Completed(i, ok, IF ok THEN store[at] ELSE "GetObjectError")
    /\ calls' = [calls EXCEPT
           ![c].response = resp,
           ![c].chains[k] = invokeFnAfterRequest(ch, resp, "GetObjectError")]
    /\ UNCHANGED <<options, store, queue, minted>>

----------------------------------------------------------------------------
(* Delete pipeline *)

prepareDelete(params) ==
    [bucketName   |-> extractBucketNameFromReceiptHandle(params.ReceiptHandle),
     s3MessageKey |-> extractS3MessageKeyFromReceiptHandle(params.ReceiptHandle),
     deleteParams |-> [params EXCEPT !.ReceiptHandle = getOriginReceiptHandle(params.ReceiptHandle)]]

\* _deleteS3Content returns null without a bucket name, and otherwise the
\* promise of the deleteObject it invokes with these parameters.
deleteS3Content(bucket, key) == [Bucket |-> bucket, Key |-> key]

\* The wrapper of line 211 is returned as it is: nothing calls its promise().
deleteMessage(params, cb) ==
    LET c    == Len(calls) + 1
        n    == Len(ops)
        prep == prepareDelete(params)
        call == NewCall("deleteMessage", params, cb)
        request == Invoke("sqs", "deleteMessage", prep.deleteParams, c)
        del  == Invoke("s3", "deleteObject", deleteS3Content(prep.bucketName, prep.s3MessageKey), c)
        wrapped == wrapRequest(cb, n + 2, Truthy(prep.bucketName))
    IN
    /\ IF ~Truthy(prep.s3MessageKey)
       THEN /\ ops' = Append(ops, request)
            /\ calls' = Append(calls, [call EXCEPT !.returned = "request", !.req = n + 1])
       ELSE /\ ops' = ops \o <<request>>
                          \o (IF cb /\ Truthy(prep.bucketName) THEN <<del>> ELSE <<>>)
            /\ calls' = Append(calls,
                   [call EXCEPT !.returned = "wrapper", !.req = n + 1,
                                !.s3MessageKey = prep.s3MessageKey,
                                !.chains = wrapped])
    /\ UNCHANGED <<options, store, queue, minted>>

\* The caller of deleteMessage calls promise() on the wrapper it got back:
\* sendFn runs once more, without a callback.
promise(c) ==
    LET prep == prepareDelete(calls[c].params)
        del  == Invoke("s3", "deleteObject", deleteS3Content(prep.bucketName, prep.s3MessageKey), c)
        fn   == IF Truthy(prep.bucketName) THEN Len(ops) + 1 ELSE 0
    IN
    /\ c = Len(calls)
    /\ calls[c].returned = "wrapper"
    /\ \A k \in DOMAIN calls[c].chains : calls[c].chains[k].cb
    /\ ops' = IF fn = 0 THEN ops ELSE Append(ops, del)
    /\ calls' = [calls EXCEPT ![c].chains = Append(@, NewChain(FALSE, fn))]
    /\ UNCHANGED <<options, store, queue, minted>>

SqsDeleteMessageCompletes(i, ok) ==
    LET Kept(k) == queue[k].ReceiptHandle # ops[i].input.ReceiptHandle
        kept == SelectSeq([k \in 1..Len(queue) |-> k], Kept)
    IN
    /\ Pending(i, "deleteMessage")
    /\ ops' = Completed(i, ok, IF ok THEN "DeleteMessageOutput" ELSE "DeleteMessageError")
    /\ queue' = IF ok THEN [k \in 1..Len(kept) |-> queue[kept[k]]] ELSE queue
    /\ calls' = Reactions(ops')
    /\ UNCHANGED <<options, store, minted>>

DeleteObjectCompletes(i, ok) ==
    LET at == <<ops[i].input.Bucket, ops[i].input.Key>>
    IN
    /\ Pending(i, "deleteObject")
    /\ ops' = Completed(i, ok, IF ok THEN "DeleteObjectOutput" ELSE "DeleteObjectError")
    /\ store' = IF ok THEN [x \in DOMAIN store \ {at} |-> store[x]] ELSE store
    /\ calls' = Reactions(ops')
    /\ UNCHANGED <<options, queue, minted>>

----------------------------------------------------------------------------
(* Specification of the send pipeline *)

NoObjects == [x \in {} |-> ""]

InitSend ==
    /\ options \in OptionSets
    /\ store = NoObjects
    /\ queue = <<>>
    /\ ops = <<>>
    /\ calls = <<>>
    /\ minted = 0

NextSend ==
    \/ CanCall("sendMessage")
           /\ \E params \in SendParams, cb \in BOOLEAN : sendMessage(params, cb)
    \/ \E i \in PendingOps("sendMessage"), ok \in BOOLEAN : SqsSendMessageCompletes(i, ok)
    \/ \E i \in PendingOps("putObject"), ok \in BOOLEAN : PutObjectCompletes(i, ok)

SpecSend == InitSend /\ [][NextSend]_vars

----------------------------------------------------------------------------
(* Specification of the receive pipeline: the queue holds messages of other
   producers, offloaded or not, and the store some of their objects *)

PlainMessage ==
    [Body |-> "message body", MessageAttributes |-> [N |-> StringAttribute("attr")]]

OffloadedMessage ==
    [Body |-> "8765-4321",
     MessageAttributes |-> [N |-> StringAttribute("attr"),
                            S3MessageBodyKey |-> StringAttribute("(test-bucket)8765-4321")]]

EmptyObjectMessage ==
    [Body |-> "placeholder",
     MessageAttributes |-> [S3MessageBodyKey |-> StringAttribute("(other-bucket)empty")]]

MissingObjectMessage ==
    [Body |-> "gone",
     MessageAttributes |-> [S3MessageBodyKey |-> StringAttribute("(test-bucket)missing")]]

\* A reserved attribute without parentheses, and one with a bucket and no key.
MalformedMessage ==
    [Body |-> "8765-4321",
     MessageAttributes |-> [S3MessageBodyKey |-> StringAttribute("8765-4321")]]

NoKeyMessage ==
    [Body |-> "bucket only",
     MessageAttributes |-> [S3MessageBodyKey |-> StringAttribute("(test-bucket)")]]

QueueMessages ==
    {PlainMessage, OffloadedMessage, EmptyObjectMessage, MissingObjectMessage,
     MalformedMessage, NoKeyMessage}

StoredObjects ==
    [x \in {<<"test-bucket", "8765-4321">>, <<"other-bucket", "empty">>} |->
        IF x[2] = "empty" THEN "" ELSE "message body"]

ReceiveParams ==
    { [QueueUrl |-> "test-queue"],
      [QueueUrl |-> "test-queue", MessageAttributeNames |-> <<"N">>] }

ReceiptHandles == {"receipthandle"}

InitialQueues ==
    {<<a>> : a \in QueueMessages}
        \cup { <<OffloadedMessage, PlainMessage>>,
               <<OffloadedMessage, OffloadedMessage>>,
               <<OffloadedMessage, MissingObjectMessage>>,
               <<MissingObjectMessage, OffloadedMessage>>,
               <<EmptyObjectMessage, OffloadedMessage>>,
               <<OffloadedMessage, MalformedMessage>> }

\* The queue holding the messages of q, none of them delivered yet.
Held(q) ==
    [k \in 1..Len(q) |->
        [MessageId |-> "Other-" \o ToString(k), ReceiptHandle |-> "",
         Body |-> q[k].Body, MessageAttributes |-> q[k].MessageAttributes]]

InitReceive ==
    /\ options \in {[bucketName |-> "test-bucket"], [alwaysUseS3 |-> FALSE]}
    /\ store = StoredObjects
    /\ queue \in {Held(q) : q \in InitialQueues}
    /\ ops = <<>>
    /\ calls = <<>>
    /\ minted = 0

NextReceive ==
    \/ CanCall("receiveMessage")
           /\ \E params \in ReceiveParams, cb \in BOOLEAN : receiveMessage(params, cb)
    \/ \E i \in PendingOps("receiveMessage"), ok \in BOOLEAN, n \in 0..Len(queue) :
           \E handles \in [1..n -> ReceiptHandles] : SqsReceiveMessageCompletes(i, ok, n, handles)
    \/ \E i \in PendingOps("getObject"), ok \in BOOLEAN : GetObjectCompletes(i, ok)

SpecReceive == InitReceive /\ [][NextReceive]_vars

----------------------------------------------------------------------------
(* Properties of the send pipeline *)

SendCalls == {c \in 1..Len(calls) : calls[c].api = "sendMessage"}

OpsOf(c, op) == {i \in 1..Len(ops) : ops[i].call = c /\ ops[i].op = op}

\* The call minted a key, which is what makes it offload.
Offloads(c) == Truthy(calls[c].s3MessageKey)

\* The call got past the bucketName check and _prepareSend.
Prepared(c) == calls[c].threw = ""

\* C1: in every offloading sendMessage call, the putObject for the minted key
\* has completed successfully before the queue's sendMessage is invoked.
C1_UploadCompletesBeforeQueueSend ==
    \A c \in SendCalls : Offloads(c) =>
        \A r \in OpsOf(c, "sendMessage") :
            \E p \in OpsOf(c, "putObject") :
                /\ ops[p].input.Key = calls[c].s3MessageKey
                /\ p \in ops[r].before

\* C2: when the putObject of an offloading sendMessage call fails, the queue's
\* sendMessage is never invoked for that message.
C2_FailedUploadIsNeverSent ==
    \A c \in SendCalls : Offloads(c) =>
        ((\E p \in OpsOf(c, "putObject") : ops[p].state = "failed")
            => OpsOf(c, "sendMessage") = {})

UnderThreshold(c) ==
    /\ EstimatedSize(calls[c].params) < messageSizeThreshold
    /\ ~alwaysUseS3
    /\ ~HasReserved(calls[c].params)

\* C6: a message under the threshold, sent with alwaysUseS3 = false and without
\* the reserved attribute, reaches the queue with its body and attributes as
\* the caller gave them, and no object-store primitive is invoked.
C6_SmallMessageSentVerbatim ==
    \A c \in SendCalls : UnderThreshold(c) =>
        /\ OpsOf(c, "putObject") = {}
        /\ \A r \in OpsOf(c, "sendMessage") :
               /\ ops[r].input.MessageBody = calls[c].params.MessageBody
               /\ ops[r].input.MessageAttributes = calls[c].params.MessageAttributes
               /\ DOMAIN ops[r].input.MessageAttributes = DOMAIN calls[c].params.MessageAttributes
        /\ (Prepared(c) => Cardinality(OpsOf(c, "sendMessage")) = 1)

C6_Witness ==
    \E c \in SendCalls :
        /\ UnderThreshold(c)
        /\ DOMAIN calls[c].params.MessageAttributes # {}
        /\ \E r \in OpsOf(c, "sendMessage") : ops[r].state = "ok"
        /\ \E k \in 1..Len(queue) : queue[k].Body = calls[c].params.MessageBody

\* A call the send pipeline accepts with a body to offload: a bucket is
\* configured, the body is not empty and the caller set no reserved attribute.
Offloadable(c) ==
    /\ Prepared(c)
    /\ Truthy(calls[c].params.MessageBody)
    /\ ~HasReserved(calls[c].params)

\* C7 as stated: a message is offloaded whenever its estimated size is at or
\* over the threshold, or alwaysUseS3 is true.
C7_AtOrOverThresholdOffloaded ==
    \A c \in SendCalls : Offloadable(c) =>
        ((EstimatedSize(calls[c].params) >= messageSizeThreshold \/ alwaysUseS3)
            => Offloads(c) /\ OpsOf(c, "putObject") # {})

\* C7 as amended: a message is offloaded exactly when its estimated size is
\* strictly over the threshold, or alwaysUseS3 is true; at the threshold
\* exactly it is not offloaded.
C7_OverThresholdOffloaded ==
    \A c \in SendCalls : Offloadable(c) =>
        /\ (EstimatedSize(calls[c].params) > messageSizeThreshold \/ alwaysUseS3)
               <=> (Offloads(c) /\ OpsOf(c, "putObject") # {})
        /\ (EstimatedSize(calls[c].params) = messageSizeThreshold /\ ~alwaysUseS3)
               => (~Offloads(c) /\ OpsOf(c, "putObject") = {})

C7_Witness ==
    /\ \E c \in SendCalls :
        /\ Offloadable(c)
        /\ EstimatedSize(calls[c].params) = messageSizeThreshold
        /\ DOMAIN calls[c].params.MessageAttributes # {}
        /\ ~alwaysUseS3
        /\ \E r \in OpsOf(c, "sendMessage") : ops[r].state = "ok"

\* C8: an offloading send puts the original body under the minted key in the
\* configured bucket, and hands the queue the minted key as body and the
\* caller's attributes plus S3MessageBodyKey = String '(bucketName)key'.
C8_OffloadedRequestShapes ==
    \A c \in SendCalls : (Offloads(c) /\ ~HasReserved(calls[c].params)) =>
        LET key == calls[c].s3MessageKey
            orig == calls[c].params
        IN  /\ OpsOf(c, "putObject") # {}
            /\ \A p \in OpsOf(c, "putObject") :
                   ops[p].input = [Bucket |-> options.bucketName, Key |-> key,
                                   Body |-> orig.MessageBody]
            /\ OpsOf(c, "sendMessage") # {}
            /\ \A r \in OpsOf(c, "sendMessage") :
                   LET sent == ops[r].input.MessageAttributes
                   IN  /\ ops[r].input.MessageBody = key
                       /\ ops[r].input.QueueUrl = orig.QueueUrl
                       /\ DOMAIN sent = DOMAIN orig.MessageAttributes \cup {"S3MessageBodyKey"}
                       /\ \A n \in DOMAIN orig.MessageAttributes : sent[n] = orig.MessageAttributes[n]
                       /\ sent["S3MessageBodyKey"] =
                              [DataType |-> "String",
                               StringValue |-> "(" \o options.bucketName \o ")" \o key]
            /\ \A d \in SendCalls : (d # c) => calls[d].s3MessageKey # key

C8_Witness ==
    \E c \in SendCalls :
        /\ Offloads(c)
        /\ DOMAIN calls[c].params.MessageAttributes # {}
        /\ \E p \in OpsOf(c, "putObject") : ops[p].state = "ok"
        /\ \E r \in OpsOf(c, "sendMessage") : ops[r].state = "ok"
        /\ <<options.bucketName, calls[c].s3MessageKey>> \in DOMAIN store

\* C9: each sendMessage call invokes the queue's sendMessage exactly once, and
\* putObject exactly once if it offloads and not at all otherwise, with or
\* without a completion callback.
C9_OneQueueSendOneUpload ==
    \A c \in SendCalls : Prepared(c) =>
        /\ Cardinality(OpsOf(c, "sendMessage")) = 1
        /\ Cardinality(OpsOf(c, "putObject")) = IF Offloads(c) THEN 1 ELSE 0

----------------------------------------------------------------------------
(* Specification of a round trip: the caller sends, receives and deletes;
   the store holds an object of another producer *)

RoundTripOptions ==
    { [bucketName |-> "test-bucket", messageSizeThreshold |-> 16],
      [bucketName |-> "test-bucket", alwaysUseS3 |-> TRUE],
      [bucketName |-> "two\nlines", alwaysUseS3 |-> TRUE] }

RoundTripParams ==
    { [QueueUrl |-> "test-queue", MessageBody |-> b, MessageAttributes |-> a] :
        b \in {"hello", "small message body"},
        a \in {NoAttributes,
               [S3MessageBodyKey |-> StringAttribute("(other-bucket)8765-4321")]} }

\* Receipt handles the queue may give: one without the markers, one with the
\* key marker inside, one that starts with the rest of a key marker, one with
\* the bucket marker inside.
RoundTripHandles ==
    {"receipthandle", "a-..s3Key..-b", "..s3Key..-c", "x-..s3BucketName..-y"}

\* The receipt handles of the messages receiveMessage handed over.
ReceivedHandles ==
    UNION { {calls[c].response[m].ReceiptHandle : m \in DOMAIN calls[c].response}
                \cup UNION { {calls[c].chains[k].seen[m].ReceiptHandle :
                                 m \in DOMAIN calls[c].chains[k].seen} :
                             k \in DOMAIN calls[c].chains } :
            c \in {d \in 1..Len(calls) : calls[d].api = "receiveMessage"} }

Init ==
    /\ options \in RoundTripOptions
    /\ store = [x \in {<<"other-bucket", "8765-4321">>} |-> "message body"]
    /\ queue = <<>>
    /\ ops = <<>>
    /\ calls = <<>>
    /\ minted = 0

Next ==
    \/ Once("sendMessage")
           /\ \E params \in RoundTripParams, cb \in BOOLEAN : sendMessage(params, cb)
    \/ \E i \in PendingOps("sendMessage"), ok \in BOOLEAN : SqsSendMessageCompletes(i, ok)
    \/ \E i \in PendingOps("putObject"), ok \in BOOLEAN : PutObjectCompletes(i, ok)
    \/ Once("receiveMessage")
           /\ \E cb \in BOOLEAN : receiveMessage([QueueUrl |-> "test-queue"], cb)
    \/ \E i \in PendingOps("receiveMessage"), ok \in BOOLEAN, n \in 0..Len(queue) :
           \E handles \in [1..n -> RoundTripHandles] : SqsReceiveMessageCompletes(i, ok, n, handles)
    \/ \E i \in PendingOps("getObject"), ok \in BOOLEAN : GetObjectCompletes(i, ok)
    \/ Once("deleteMessage")
           /\ \E h \in ReceivedHandles, cb \in BOOLEAN :
                  deleteMessage([QueueUrl |-> "test-queue", ReceiptHandle |-> h], cb)
    \/ \E c \in 1..Len(calls) : promise(c)
    \/ \E i \in PendingOps("deleteMessage"), ok \in BOOLEAN : SqsDeleteMessageCompletes(i, ok)
    \/ \E i \in PendingOps("deleteObject"), ok \in BOOLEAN : DeleteObjectCompletes(i, ok)

Spec == Init /\ [][Next]_vars

----------------------------------------------------------------------------
(* Properties of the receive pipeline *)

ReceiveCalls == {c \in 1..Len(calls) : calls[c].api = "receiveMessage"}

DeleteCalls == {c \in 1..Len(calls) : calls[c].api = "deleteMessage"}

\* The response of a receiveMessage call as the queue returned it.
ReturnedByQueue(c) ==
    IF ops[calls[c].req].state = "ok" THEN ops[calls[c].req].result ELSE <<>>

\* The getObject primitives a receiveMessage call invoked for message m.
FetchesFor(c, m) ==
    {calls[c].chains[k].fetch[m].op :
        k \in {j \in DOMAIN calls[c].chains : m \in DOMAIN calls[c].chains[j].fetch}} \ {0}

\* The chains of a call that handed the response to the caller.
Handed(c) == {k \in DOMAIN calls[c].chains : calls[c].chains[k].value = "response"}

WrappedHandle(bucket, key, handle) ==
    "-..s3BucketName..-" \o bucket \o "-..s3BucketName..-"
        \o "-..s3Key..-" \o key \o "-..s3Key..-" \o handle

\* C10: for each message the queue returns with S3MessageBodyKey = '(b)k',
\* receiveMessage invokes getObject exactly once, with Bucket b and Key k, and
\* hands the caller the message with the object's content as Body, the wrapped
\* handle as ReceiptHandle, and MessageAttributes as the queue returned them.
C10_OffloadedMessageFetchedOnce ==
    \A c \in ReceiveCalls :
        LET orig == ReturnedByQueue(c) IN
        \A m \in DOMAIN orig : IsOffloaded(orig[m]) =>
            LET d == Decoded(orig[m]) IN
            /\ Cardinality(FetchesFor(c, m)) = 1
            /\ \A i \in FetchesFor(c, m) :
                   ops[i].input = [Bucket |-> d.bucketName, Key |-> d.s3MessageKey]
            /\ \A k \in Handed(c) :
                   LET got == calls[c].chains[k].seen[m] IN
                   /\ \A i \in FetchesFor(c, m) :
                          ops[i].state = "ok" => got.Body = ops[i].result
                   /\ got.ReceiptHandle =
                          WrappedHandle(d.bucketName, d.s3MessageKey, orig[m].ReceiptHandle)
                   /\ got.MessageAttributes = orig[m].MessageAttributes

----------------------------------------------------------------------------
(* Properties of a round trip *)

\* The sendMessage call succeeded, as its caller is told.
SendSucceeded(s) ==
    /\ calls[s].req # 0
    /\ ops[calls[s].req].state = "ok"
    /\ calls[s].returned = "promise" =>
           calls[s].chains[Len(calls[s].chains)].state = "resolved"

\* Message m of the response receiveMessage call r handed over on chain k is
\* the message that sendMessage call s put on the queue.
Carries(r, k, m, s) ==
    /\ k \in Handed(r)
    /\ m \in DOMAIN calls[r].chains[k].seen
    /\ SendSucceeded(s)
    /\ calls[r].chains[k].seen[m].MessageId = ops[calls[s].req].result

\* C3 as stated: the body a receiver is handed for a message equals the body
\* the sender gave to a successful sendMessage, whatever its size and whether
\* or not it was offloaded.
C3_ReceivedBodyIsSentBody ==
    \A s \in SendCalls, r \in ReceiveCalls :
        \A k \in DOMAIN calls[r].chains : \A m \in DOMAIN calls[r].chains[k].seen :
            Carries(r, k, m, s) =>
                calls[r].chains[k].seen[m].Body = calls[s].params.MessageBody

\* C3 as amended: the body a receiver is handed equals the body the sender
\* gave to a successful sendMessage, offloaded or not, when the sender's
\* attributes did not already carry S3MessageBodyKey.
C3_ReceivedBodyIsSentBodyUnlessReserved ==
    \A s \in SendCalls, r \in ReceiveCalls :
        \A k \in DOMAIN calls[r].chains : \A m \in DOMAIN calls[r].chains[k].seen :
            (Carries(r, k, m, s) /\ ~HasReserved(calls[s].params)) =>
                calls[r].chains[k].seen[m].Body = calls[s].params.MessageBody

C3_Witness ==
    \E s \in SendCalls, r \in ReceiveCalls :
        \E k \in DOMAIN calls[r].chains : \E m \in DOMAIN calls[r].chains[k].seen :
            /\ Carries(r, k, m, s)
            /\ Offloads(s)
            /\ ~HasReserved(calls[s].params)
            /\ FetchesFor(r, m) # {}
            /\ calls[r].chains[k].seen[m].Body = "small message body"

\* The handles under which receiveMessage call r handed over message m.
HandlesOf(r, m) ==
    {calls[r].chains[k].seen[m].ReceiptHandle :
        k \in {j \in Handed(r) : m \in DOMAIN calls[r].chains[j].seen}}

\* Delete call d deletes offloaded message m of receive call r.
Deletes(d, r, m) ==
    /\ m \in DOMAIN ReturnedByQueue(r)
    /\ IsOffloaded(ReturnedByQueue(r)[m])
    /\ calls[d].params.ReceiptHandle \in HandlesOf(r, m)

\* C4: when deleteMessage is given the handle of an offloaded message and the
\* queue deletion succeeds, deleteObject is invoked for the bucket and key of
\* that message.
C4_DeleteRemovesOffloadedObject ==
    \A d \in DeleteCalls, r \in ReceiveCalls :
        \A m \in DOMAIN ReturnedByQueue(r) :
            (Deletes(d, r, m) /\ ops[calls[d].req].state = "ok" /\ Quiescent) =>
                \E i \in OpsOf(d, "deleteObject") :
                    ops[i].input = [Bucket |-> Decoded(ReturnedByQueue(r)[m]).bucketName,
                                    Key    |-> Decoded(ReturnedByQueue(r)[m]).s3MessageKey]

\* The handle contains neither marker literal.
NoMarkerLiteral(h) ==
    /\ Occurrences(h, "-..s3Key..-") = {}
    /\ Occurrences(h, "-..s3BucketName..-") = {}

\* The queue deletion of call d is given handle h and the caller's other
\* parameters.
DeletesFromQueue(d, h) ==
    /\ OpsOf(d, "deleteMessage") # {}
    /\ \A i \in OpsOf(d, "deleteMessage") :
           ops[i].input = [calls[d].params EXCEPT !.ReceiptHandle = h]

\* C5: deleteMessage on the wrapped handle that receiveMessage produced for an
\* offloaded message gives the queue's deleteMessage the handle h the queue
\* issued and the caller's other parameters; stated for the handles h that
\* contain no marker literal.
C5_QueueGivenIssuedHandle ==
    \A d \in DeleteCalls, r \in ReceiveCalls :
        \A m \in DOMAIN ReturnedByQueue(r) :
            (Deletes(d, r, m) /\ NoMarkerLiteral(ReturnedByQueue(r)[m].ReceiptHandle)) =>
                DeletesFromQueue(d, ReturnedByQueue(r)[m].ReceiptHandle)

----------------------------------------------------------------------------
(* Properties of the receive request and of messages that are not offloaded *)

\* C11: every receiveMessage call invokes the queue's receiveMessage exactly
\* once, with the caller's parameters unchanged except MessageAttributeNames,
\* which is the caller's list (empty when absent) followed by S3MessageBodyKey.
C11_QueueReceiveParameters ==
    \A c \in ReceiveCalls :
        /\ Cardinality(OpsOf(c, "receiveMessage")) = 1
        /\ \A i \in OpsOf(c, "receiveMessage") :
               LET given  == calls[c].params
                   passed == ops[i].input
               IN  /\ DOMAIN passed = DOMAIN given \cup {"MessageAttributeNames"}
                   /\ \A f \in DOMAIN given \ {"MessageAttributeNames"} :
                          passed[f] = given[f]
                   /\ passed.MessageAttributeNames =
                          (IF "MessageAttributeNames" \in DOMAIN given
                           THEN given.MessageAttributeNames ELSE <<>>)
                              \o <<"S3MessageBodyKey">>

C11_Witness ==
    \E c \in ReceiveCalls :
        /\ calls[c].cb
        /\ "MessageAttributeNames" \in DOMAIN calls[c].params
        /\ \E i \in OpsOf(c, "receiveMessage") :
               ops[i].state = "ok" /\ Len(ops[i].input.MessageAttributeNames) = 2
        /\ \A k \in DOMAIN calls[c].chains : calls[c].chains[k].state # "pending"


NoReserved(message) == S3_MESSAGE_BODY_KEY \notin DOMAIN message.MessageAttributes

\* C12: a message the queue returns without the reserved attribute keeps its
\* Body, ReceiptHandle and attributes and causes no getObject; when no message
\* of the batch is offloaded the caller is handed the queue's response as is.
C12_PlainMessageUntouched ==
    \A c \in ReceiveCalls :
        LET orig == ReturnedByQueue(c) IN
        /\ \A m \in DOMAIN orig : NoReserved(orig[m]) =>
               /\ FetchesFor(c, m) = {}
               /\ calls[c].response[m] = orig[m]
               /\ \A k \in Handed(c) : calls[c].chains[k].seen[m] = orig[m]
        /\ (\A m \in DOMAIN orig : ~IsOffloaded(orig[m])) =>
               /\ OpsOf(c, "getObject") = {}
               /\ \A k \in Handed(c) : calls[c].chains[k].seen = orig

C12_Witness ==
    \E c \in ReceiveCalls : \E k \in Handed(c) :
        LET orig == ReturnedByQueue(c) IN
        /\ Len(orig) = 2
        /\ IsOffloaded(orig[1]) /\ NoReserved(orig[2])
        /\ calls[c].chains[k].seen[1].Body # orig[1].Body
        /\ calls[c].chains[k].seen[2].Body = "message body"
        /\ calls[c].chains[k].seen[2].ReceiptHandle = "receipthandle"


----------------------------------------------------------------------------
(* Properties of failing fetches *)

\* The chain told the caller that the call failed.
ReportedFailure(ch) == ch.state = "rejected" \/ ch.cbErr # ""

\* C13: when a fetch of a batch fails, receiveMessage reports the failure to
\* the caller only after the fetches of all sibling messages have completed.
C13_FailureReportedAfterAllFetches ==
    \A c \in ReceiveCalls : \A k \in DOMAIN calls[c].chains :
        ReportedFailure(calls[c].chains[k]) =>
            \A m \in DOMAIN calls[c].chains[k].fetch :
                calls[c].chains[k].fetch[m].state # "pending"


\* C14: every offloaded message of a response that receiveMessage hands to the
\* caller, through the promise or the callback, has as Body the complete
\* content of the object it references, the empty string included.
C14_OffloadedBodyFullyReconstructed ==
    \A c \in ReceiveCalls :
        LET orig == ReturnedByQueue(c) IN
        \A k \in DOMAIN calls[c].chains : \A m \in DOMAIN calls[c].chains[k].seen :
            IsOffloaded(orig[m]) =>
                LET at == <<Decoded(orig[m]).bucketName, Decoded(orig[m]).s3MessageKey>>
                IN  /\ at \in DOMAIN store
                    /\ calls[c].chains[k].seen[m].Body = store[at]


----------------------------------------------------------------------------
(* Specification of a client constructed without a bucket name: it sends,
   receives and deletes against a queue that holds messages of a producer *)

NoBucketOptions ==
    { [alwaysUseS3 |-> TRUE], [messageSizeThreshold |-> 16], [bucketName |-> ""] }

InitNoBucket ==
    /\ options \in NoBucketOptions
    /\ store = StoredObjects
    /\ queue = Held(<<OffloadedMessage>>)
    /\ ops = <<>>
    /\ calls = <<>>
    /\ minted = 0

NextNoBucket ==
    \/ Once("sendMessage")
           /\ \E params \in RoundTripParams, cb \in BOOLEAN : sendMessage(params, cb)
    \/ Once("receiveMessage")
           /\ \E cb \in BOOLEAN : receiveMessage([QueueUrl |-> "test-queue"], cb)
    \/ \E i \in PendingOps("receiveMessage"), ok \in BOOLEAN, n \in 0..Len(queue) :
           \E handles \in [1..n -> ReceiptHandles] : SqsReceiveMessageCompletes(i, ok, n, handles)
    \/ \E i \in PendingOps("getObject"), ok \in BOOLEAN : GetObjectCompletes(i, ok)
    \/ Once("deleteMessage")
           /\ \E h \in ReceivedHandles, cb \in BOOLEAN :
                  deleteMessage([QueueUrl |-> "test-queue", ReceiptHandle |-> h], cb)
    \/ \E c \in 1..Len(calls) : promise(c)
    \/ \E i \in PendingOps("deleteMessage"), ok \in BOOLEAN : SqsDeleteMessageCompletes(i, ok)
    \/ \E i \in PendingOps("deleteObject"), ok \in BOOLEAN : DeleteObjectCompletes(i, ok)

SpecNoBucket == InitNoBucket /\ [][NextNoBucket]_vars

\* The options give the client no bucket name.
Unconfigured == "bucketName" \notin DOMAIN options \/ options.bucketName = ""

AllOpsOf(c) == {i \in 1..Len(ops) : ops[i].call = c}

\* C15: a client without a bucket name fails every sendMessage call with the
\* configuration error before it invokes any primitive or mints a key, while
\* its receiveMessage and deleteMessage calls invoke the queue as usual.
C15_SendRequiresBucketName ==
    Unconfigured =>
        /\ minted = 0
        /\ \A c \in SendCalls :
               /\ calls[c].threw = "Error: bucketName option is required for sending messages"
               /\ calls[c].returned = ""
               /\ AllOpsOf(c) = {}
        /\ \A c \in ReceiveCalls \cup DeleteCalls :
               /\ calls[c].threw = ""
               /\ calls[c].req \in AllOpsOf(c)
               /\ ops[calls[c].req].op = calls[c].api

C15_Witness ==
    /\ Unconfigured
    /\ \E c \in SendCalls :
           calls[c].threw # "" /\ HasReserved(calls[c].params)
    /\ \E c \in ReceiveCalls : \E k \in Handed(c) :
           /\ Len(calls[c].chains[k].seen) = 1
           /\ calls[c].chains[k].seen[1].Body = "message body"
    /\ \E c \in DeleteCalls :
           /\ ops[calls[c].req].state = "ok"
           /\ \E i \in OpsOf(c, "deleteObject") : ops[i].state = "ok"


----------------------------------------------------------------------------
(* Properties of the reference and receipt-handle codecs *)

HasReservedAttribute(message) == S3_MESSAGE_BODY_KEY \in DOMAIN message.MessageAttributes

\* The value is '(' bucket ')' key with a bucket and a key that are not empty.
BucketAndKey(v) ==
    /\ SubSeq(v, 1, 1) = "("
    /\ \E p \in 3..(Len(v) - 1) : SubSeq(v, p, p) = ")"

\* C16: decoding the reserved attribute of a received message has three
\* outcomes: absent, the message is not offloaded and causes no error;
\* '(bucket)key', that object is fetched; any other present value makes
\* receiveMessage fail and is never treated as not offloaded.
C16_DecodeOutcomes ==
    \A c \in ReceiveCalls :
        LET orig == ReturnedByQueue(c) IN
        \A m \in DOMAIN orig : \A k \in DOMAIN calls[c].chains :
            LET v == ReservedValue(orig[m])
                f == calls[c].chains[k].fetch[m]
            IN  /\ ~HasReservedAttribute(orig[m]) => (f.op = 0 /\ f.state = "fulfilled")
                /\ (HasReservedAttribute(orig[m]) /\ BucketAndKey(v)) =>
                       /\ f.op # 0
                       /\ "(" \o ops[f.op].input.Bucket \o ")" \o ops[f.op].input.Key = v
                /\ (HasReservedAttribute(orig[m]) /\ ~BucketAndKey(v)) =>
                       /\ f.state = "rejected"
                       /\ ReportedFailure(calls[c].chains[k])


----------------------------------------------------------------------------
(* Properties of sending a message that already carries the reference *)

\* The send pipeline accepted a message carrying the reserved attribute.
PreSupplied(c) == Prepared(c) /\ HasReserved(calls[c].params)

SuppliedReference(c) == calls[c].params.MessageAttributes["S3MessageBodyKey"].StringValue

\* The default transform leaves the caller's body in the message.
KeepsBody(c) ==
    /\ Truthy(calls[c].params.MessageBody)
    /\ ~alwaysUseS3
    /\ EstimatedSize(calls[c].params) <= messageSizeThreshold

\* C17 as stated: for a message that already carries the reserved attribute,
\* no key is minted, no putObject is invoked, the attributes are passed
\* through, and the body handed to the queue is the attribute's string value.
C17_PreSuppliedReferenceIsBody ==
    \A c \in SendCalls : PreSupplied(c) =>
        /\ ~Offloads(c)
        /\ OpsOf(c, "putObject") = {}
        /\ Cardinality(OpsOf(c, "sendMessage")) = 1
        /\ \A r \in OpsOf(c, "sendMessage") :
               /\ ops[r].input.MessageAttributes = calls[c].params.MessageAttributes
               /\ ops[r].input.MessageBody = SuppliedReference(c)

\* C17 as amended: for a message that already carries the reserved attribute,
\* no key is minted, no putObject is invoked, the attributes are passed
\* through, and the body handed to the queue is the caller's body when the
\* transform keeps it, and the attribute's string value otherwise.
C17_PreSuppliedReferenceNotReoffloaded ==
    \A c \in SendCalls : PreSupplied(c) =>
        /\ ~Offloads(c)
        /\ OpsOf(c, "putObject") = {}
        /\ Cardinality(OpsOf(c, "sendMessage")) = 1
        /\ \A r \in OpsOf(c, "sendMessage") :
               /\ ops[r].input.MessageAttributes = calls[c].params.MessageAttributes
               /\ ops[r].input.MessageBody =
                      IF KeepsBody(c) THEN calls[c].params.MessageBody
                      ELSE SuppliedReference(c)

C17_Witness ==
    \E c \in SendCalls :
        /\ PreSupplied(c)
        /\ ~KeepsBody(c)
        /\ calls[c].params.MessageBody = "small message body"
        /\ \E r \in OpsOf(c, "sendMessage") :
               ops[r].state = "ok" /\ ops[r].input.MessageBody = "(other-bucket)8765-4321"


----------------------------------------------------------------------------
(* Properties of deleting with a handle that is not wrapped *)

WithoutKeyMarker(h) == Occurrences(h, "-..s3Key..-") = {}

\* C18: for a receipt handle that does not contain the key marker, with or
\* without the bucket marker, deleteMessage invokes the queue's deleteMessage
\* once with the caller's parameters unchanged and invokes nothing else.
C18_UnwrappedHandlePassesThrough ==
    \A d \in DeleteCalls : WithoutKeyMarker(calls[d].params.ReceiptHandle) =>
        /\ calls[d].threw = ""
        /\ calls[d].returned = "request"
        /\ AllOpsOf(d) = {calls[d].req}
        /\ ops[calls[d].req].op = "deleteMessage"
        /\ ops[calls[d].req].input = calls[d].params

C18_Witness ==
    \E d \in DeleteCalls :
        /\ calls[d].params.ReceiptHandle = "x-..s3BucketName..-y"
        /\ ops[calls[d].req].state = "ok"
        /\ queue = <<>>


----------------------------------------------------------------------------
(* Properties of the receipt-handle and reference round trips *)

\* C19: for a handle h without a marker literal, the bucket, key and original
\* handle extracted from the wrapped handle receiveMessage made of (b, k, h)
\* are b, k and h.
C19_WrapUnwrapRoundTrip ==
    \A r \in ReceiveCalls :
        LET orig == ReturnedByQueue(r) IN
        \A m \in DOMAIN orig :
            LET b == Decoded(orig[m]).bucketName
                k == Decoded(orig[m]).s3MessageKey
                h == orig[m].ReceiptHandle
                w == embedS3MarkersInReceiptHandle(b, k, h)
            IN  (IsOffloaded(orig[m]) /\ NoMarkerLiteral(h) /\ w \in HandlesOf(r, m)) =>
                    /\ extractBucketNameFromReceiptHandle(w) = b
                    /\ extractS3MessageKeyFromReceiptHandle(w) = k
                    /\ getOriginReceiptHandle(w) = h


\* The string has neither a parenthesis nor a line terminator.
PlainName(s) ==
    /\ s # ""
    /\ \A p \in 1..Len(s) : SubSeq(s, p, p) \notin {"(", ")", "\n"}

WithoutParentheses(s) ==
    /\ s # ""
    /\ \A p \in 1..Len(s) : SubSeq(s, p, p) \notin {"(", ")"}

\* The reference sendMessage call s wrote into the reserved attribute.
WrittenReference(s) ==
    ops[calls[s].req].input.MessageAttributes["S3MessageBodyKey"].StringValue

\* Receive call r got, as message m, the queue message of send call s.
Receives(r, m, s) ==
    /\ m \in DOMAIN ReturnedByQueue(r)
    /\ ops[calls[s].req].state = "ok"
    /\ ReturnedByQueue(r)[m].MessageId = ops[calls[s].req].result

\* The reference written by send call s decodes, in receive call r, to the
\* bucket and key it was made of.
DecodesBack(r, m, s) ==
    /\ WrittenReference(s) = "(" \o options.bucketName \o ")" \o calls[s].s3MessageKey
    /\ ReservedValue(ReturnedByQueue(r)[m]) = WrittenReference(s)
    /\ Decoded(ReturnedByQueue(r)[m]) =
           [threw |-> FALSE, bucketName |-> options.bucketName,
            s3MessageKey |-> calls[s].s3MessageKey]
    /\ \A k \in DOMAIN calls[r].chains :
           /\ calls[r].chains[k].fetch[m].op # 0
           /\ ops[calls[r].chains[k].fetch[m].op].input =
                  [Bucket |-> options.bucketName, Key |-> calls[s].s3MessageKey]

\* C20 as stated: for a bucket b and a key k that are not empty and contain no
\* parentheses, the reference '(b)k' that sendMessage writes decodes to b, k.
C20_ReferenceRoundTrip ==
    \A s \in SendCalls, r \in ReceiveCalls : \A m \in DOMAIN ReturnedByQueue(r) :
        (/\ Offloads(s) /\ Receives(r, m, s)
         /\ WithoutParentheses(options.bucketName)
         /\ WithoutParentheses(calls[s].s3MessageKey)) => DecodesBack(r, m, s)

\* C20 as amended: for a bucket b and a key k that are not empty and contain
\* neither parentheses nor line terminators, the reference '(b)k' that
\* sendMessage writes decodes to b, k.
C20_SingleLineReferenceRoundTrip ==
    \A s \in SendCalls, r \in ReceiveCalls : \A m \in DOMAIN ReturnedByQueue(r) :
        (/\ Offloads(s) /\ Receives(r, m, s)
         /\ PlainName(options.bucketName)
         /\ PlainName(calls[s].s3MessageKey)) => DecodesBack(r, m, s)

C20_Witness ==
    \E s \in SendCalls, r \in ReceiveCalls : \E m \in DOMAIN ReturnedByQueue(r) :
        /\ Offloads(s) /\ Receives(r, m, s)
        /\ WrittenReference(s) = "(test-bucket)key-1"
        /\ \E i \in OpsOf(r, "getObject") :
               /\ ops[i].state = "ok"
               /\ ops[i].input = [Bucket |-> "test-bucket", Key |-> "key-1"]


----------------------------------------------------------------------------
(* Properties of deleteMessage when the object deletion fails *)

\* The deleteObject primitives of call d that failed.
FailedDeletes(d) == {i \in OpsOf(d, "deleteObject") : ops[i].state = "failed"}

\* The failure of deleteObject primitive i reached the caller of call d: the
\* callback got the error, or the promise was rejected with it.
ReportsFailure(d, i) ==
    /\ \E k \in DOMAIN calls[d].chains : calls[d].chains[k].fn = i
    /\ \A k \in DOMAIN calls[d].chains :
           calls[d].chains[k].fn = i =>
               IF calls[d].chains[k].cb
               THEN /\ calls[d].chains[k].cbCalls = 1
                    /\ calls[d].chains[k].cbErr = ops[i].result
               ELSE /\ calls[d].chains[k].state = "rejected"
                    /\ calls[d].chains[k].value = ops[i].result

\* C21: when deleteMessage is given the wrapped handle of an offloaded message
\* and its deleteObject fails, the queue's deleteMessage has been invoked with
\* the handle h the queue issued, and the failure has reached the caller;
\* stated for the handles h that contain no marker literal.
C21_ObjectDeletionFailureReported ==
    \A d \in DeleteCalls, r \in ReceiveCalls :
        \A m \in DOMAIN ReturnedByQueue(r) :
            (/\ Deletes(d, r, m)
             /\ NoMarkerLiteral(ReturnedByQueue(r)[m].ReceiptHandle)
             /\ FailedDeletes(d) # {}) =>
                /\ DeletesFromQueue(d, ReturnedByQueue(r)[m].ReceiptHandle)
                /\ \A i \in FailedDeletes(d) : ReportsFailure(d, i)


----------------------------------------------------------------------------
(* Event hooks *)

\* record.messageAttributes?.[S3_MESSAGE_BODY_KEY]?.stringValue, with ""
\* standing for undefined.
RecordValue(record) ==
    IF S3_MESSAGE_BODY_KEY \in DOMAIN record.messageAttributes
       /\ "stringValue" \in DOMAIN record.messageAttributes[S3_MESSAGE_BODY_KEY]
    THEN record.messageAttributes[S3_MESSAGE_BODY_KEY].stringValue
    ELSE ""

RecordDecoded(record) == getS3MessageKeyAndBucket(RecordValue(record))

\* if (s3MessageKey) of lines 224 and 238.
HasKey(record) ==
    ~RecordDecoded(record).threw /\ Truthy(RecordDecoded(record).s3MessageKey)

\* The records for which checkEvent invokes getObject.
Resolved(event) == {m \in 1..Len(event) : HasKey(event[m])}

\* The records for which eventSucceeded invokes deleteObject: _deleteS3Content
\* returns null without a bucket name.
Finalized(event) ==
    {m \in 1..Len(event) :
        HasKey(event[m]) /\ Truthy(RecordDecoded(event[m]).bucketName)}

\* The promises event.Records.map(async (record) => ...) returns, as they are
\* when map returns: rejected where the decoding threw, pending where the
\* function awaits the primitive it invoked (first is the position in ops of
\* the first one), fulfilled otherwise.
RecordPromises(event, invoking, first) ==
    [m \in 1..Len(event) |->
        IF RecordDecoded(event[m]).threw THEN [op |-> 0, state |-> "rejected"]
        ELSE IF m \in invoking
             THEN [op |-> first - 1 + Cardinality({j \in invoking : j <= m}),
                   state |-> "pending"]
             ELSE [op |-> 0, state |-> "fulfilled"]]

\* The primitives the map invokes, in the order of the records.
RecordOps(event, invoking, op, c) ==
    LET Test(m) == m \in invoking
        idx == SelectSeq([m \in 1..Len(event) |-> m], Test)
        Input(record) ==
            IF op = "getObject"
            THEN getS3Content(RecordDecoded(record).bucketName,
                              RecordDecoded(record).s3MessageKey)
            ELSE deleteS3Content(RecordDecoded(record).bucketName,
                                 RecordDecoded(record).s3MessageKey)
    IN  [j \in 1..Len(idx) |-> Invoke("s3", op, Input(event[idx[j]]), c)]

\* Promise.any in the place of Promise.all: fulfilled with the first record.
promiseAny(ch, err) ==
    IF ch.state # "pending" THEN ch
    ELSE IF \E m \in DOMAIN ch.fetch : ch.fetch[m].state = "fulfilled"
         THEN [ch EXCEPT !.state = "resolved", !.value = "undefined[]"]
    ELSE IF \A m \in DOMAIN ch.fetch : ch.fetch[m].state = "rejected"
         THEN [ch EXCEPT !.state = "rejected", !.value = err]
    ELSE ch

\* Promise.all over the records' promises: rejected with err as soon as one
\* of them is rejected, fulfilled when all of them are.
promiseAll(ch, err) ==
    IF ch.state # "pending" THEN ch
    ELSE IF \E m \in DOMAIN ch.fetch : ch.fetch[m].state = "rejected"
         THEN [ch EXCEPT !.state = "rejected", !.value = err]
    ELSE IF \A m \in DOMAIN ch.fetch : ch.fetch[m].state = "fulfilled"
         THEN [ch EXCEPT !.state = "resolved", !.value = "undefined[]"]
    ELSE ch

\* The promise an event hook returns, over the records' promises.
EventPromise(promises) ==
    promiseAll([NewChain(FALSE, 1) EXCEPT !.fn = 0, !.fetch = promises],
               "Error: Can not found match s3MessageKeyRegexMatch")

\* A call of an event hook: response holds the records of the event, which
\* the hook changes in place.
EventCall(api, event, invoking, first) ==
    [NewCall(api, event, FALSE) EXCEPT
        !.returned = "promise",
        !.response = event,
        !.chains = <<EventPromise(RecordPromises(event, invoking, first))>>]

checkEvent(event) ==
    LET c == Len(calls) + 1
    IN
    /\ ops' = ops \o RecordOps(event, Resolved(event), "getObject", c)
    /\ calls' = Append(calls, EventCall("checkEvent", event, Resolved(event), Len(ops) + 1))
    /\ UNCHANGED <<options, store, queue, minted>>

eventSucceeded(event) ==
    LET c == Len(calls) + 1
    IN
    /\ ops' = ops \o RecordOps(event, Finalized(event), "deleteObject", c)
    /\ calls' = Append(calls, EventCall("eventSucceeded", event, Finalized(event), Len(ops) + 1))
    /\ UNCHANGED <<options, store, queue, minted>>

\* The record whose function awaits primitive i of call c.
AwaitedBy(c, i) ==
    CHOOSE m \in DOMAIN calls[c].chains[1].fetch : calls[c].chains[1].fetch[m].op = i

\* A getObject of checkEvent completes: with the object's content when the
\* object exists, or with an error.  The function that awaited it then sets
\* record.body (line 226) and Promise.all reacts.
CheckEventGetObjectCompletes(i, ok) ==
    LET c  == ops[i].call
        at == <<ops[i].input.Bucket, ops[i].input.Key>>
        m  == AwaitedBy(c, i)
        s3Content == store[at]
        ch == [calls[c].chains[1] EXCEPT
                  !.fetch[m].state = IF ok THEN "fulfilled" ELSE "rejected"]
    IN
    /\ Pending(i, "getObject")
    /\ calls[c].api = "checkEvent"
    /\ ok => at \in DOMAIN store
    /\ ops' = Completed(i, ok, IF ok THEN s3Content ELSE "GetObjectError")
    /\ calls' = [calls EXCEPT
           ![c].response[m].body =
               IF ok /\ Truthy(s3Content) THEN s3Content ELSE @,
           ![c].chains[1] = promiseAll(ch, "GetObjectError")]
    /\ UNCHANGED <<options, store, queue, minted>>

\* A deleteObject of eventSucceeded completes, and Promise.all reacts.
EventSucceededDeleteObjectCompletes(i, ok) ==
    LET c  == ops[i].call
        at == <<ops[i].input.Bucket, ops[i].input.Key>>
        m  == AwaitedBy(c, i)
        ch == [calls[c].chains[1] EXCEPT
                  !.fetch[m].state = IF ok THEN "fulfilled" ELSE "rejected"]
    IN
    /\ Pending(i, "deleteObject")
    /\ calls[c].api = "eventSucceeded"
    /\ ops' = Completed(i, ok, IF ok THEN "DeleteObjectOutput" ELSE "DeleteObjectError")
    /\ store' = IF ok THEN [x \in DOMAIN store \ {at} |-> store[x]] ELSE store
    /\ calls' = [calls EXCEPT ![c].chains[1] = promiseAll(ch, "DeleteObjectError")]
    /\ UNCHANGED <<options, queue, minted>>

----------------------------------------------------------------------------
(* Specification of the event hooks *)

RecordAttribute(v) == [dataType |-> "String", stringValue |-> v]

PlainRecord ==
    [messageId |-> "plain", body |-> "message body",
     messageAttributes |-> [N |-> RecordAttribute("attr")]]

OffloadedRecord ==
    [messageId |-> "offloaded", body |-> "8765-4321",
     messageAttributes |-> [N |-> RecordAttribute("attr"),
                            S3MessageBodyKey |-> RecordAttribute("(test-bucket)8765-4321")]]

EmptyObjectRecord ==
    [messageId |-> "empty", body |-> "placeholder",
     messageAttributes |-> [S3MessageBodyKey |-> RecordAttribute("(other-bucket)empty")]]

MissingObjectRecord ==
    [messageId |-> "missing", body |-> "gone",
     messageAttributes |-> [S3MessageBodyKey |-> RecordAttribute("(test-bucket)missing")]]

\* A reserved attribute without parentheses, one with a bucket and no key,
\* and one with a key and an empty bucket.
MalformedRecord ==
    [messageId |-> "malformed", body |-> "8765-4321",
     messageAttributes |-> [S3MessageBodyKey |-> RecordAttribute("8765-4321")]]

NoKeyRecord ==
    [messageId |-> "nokey", body |-> "bucket only",
     messageAttributes |-> [S3MessageBodyKey |-> RecordAttribute("(test-bucket)")]]

NoBucketRecord ==
    [messageId |-> "nobucket", body |-> "key only",
     messageAttributes |-> [S3MessageBodyKey |-> RecordAttribute("()8765-4321")]]

Events ==
    {<<>>}
        \cup {<<a>> : a \in {PlainRecord, OffloadedRecord, EmptyObjectRecord,
                             MissingObjectRecord, MalformedRecord, NoKeyRecord,
                             NoBucketRecord}}
        \cup { <<OffloadedRecord, PlainRecord>>,
               <<OffloadedRecord, OffloadedRecord>>,
               <<OffloadedRecord, EmptyObjectRecord>>,
               <<OffloadedRecord, MissingObjectRecord>>,
               <<MissingObjectRecord, OffloadedRecord>>,
               <<MalformedRecord, OffloadedRecord>> }

\* The events the handler has: the ones it is given, and the ones checkEvent
\* has worked on.
EventsAtHand ==
    Events \cup {calls[c].response :
                    c \in {d \in 1..Len(calls) : calls[d].api = "checkEvent"}}

InitEvent ==
    /\ options \in {[bucketName |-> "consumer-bucket"], [alwaysUseS3 |-> FALSE]}
    /\ store = StoredObjects
    /\ queue = <<>>
    /\ ops = <<>>
    /\ calls = <<>>
    /\ minted = 0

NextEvent ==
    \/ Once("checkEvent") /\ \E event \in Events : checkEvent(event)
    \/ \E i \in PendingOps("getObject"), ok \in BOOLEAN : CheckEventGetObjectCompletes(i, ok)
    \/ Once("eventSucceeded") /\ \E event \in EventsAtHand : eventSucceeded(event)
    \/ \E i \in PendingOps("deleteObject"), ok \in BOOLEAN :
           EventSucceededDeleteObjectCompletes(i, ok)

SpecEvent == InitEvent /\ [][NextEvent]_vars


----------------------------------------------------------------------------
(* Properties of the event hooks *)

CheckEventCalls == {c \in 1..Len(calls) : calls[c].api = "checkEvent"}

EventSucceededCalls == {c \in 1..Len(calls) : calls[c].api = "eventSucceeded"}

\* The reserved attribute of the record decodes to a bucket and a key.
RefersToObject(record) ==
    /\ ~RecordDecoded(record).threw
    /\ Truthy(RecordDecoded(record).bucketName)
    /\ Truthy(RecordDecoded(record).s3MessageKey)

\* What the function of record m of event hook call c awaits: op is the
\* primitive it invoked, 0 when it invoked none.
Awaits(c, m) == calls[c].chains[1].fetch[m]

\* C22: for each record of the event whose reserved attribute decodes to
\* (bucket, key), checkEvent invokes getObject for that bucket and key, and
\* once it has the content the record's body is that content, whatever the
\* other records are; for each record without the reserved attribute it
\* invokes nothing and leaves the body as it was.
C22_CheckEventResolvesEachRecord ==
    \A c \in CheckEventCalls : \A m \in DOMAIN calls[c].params :
        LET record == calls[c].params[m]
            fetch  == Awaits(c, m).op
        IN  /\ RefersToObject(record) =>
                   /\ fetch \in OpsOf(c, "getObject")
                   /\ ops[fetch].input = [Bucket |-> RecordDecoded(record).bucketName,
                                          Key    |-> RecordDecoded(record).s3MessageKey]
                   /\ ops[fetch].state = "ok" =>
                          calls[c].response[m].body = ops[fetch].result
            /\ RecordValue(record) = "" =>
                   /\ fetch = 0
                   /\ calls[c].response[m].body = record.body


\* The objects the offloaded records of an event refer to.
ObjectsOf(event) ==
    {<<RecordDecoded(event[m]).bucketName, RecordDecoded(event[m]).s3MessageKey>> :
        m \in {j \in 1..Len(event) : RefersToObject(event[j])}}

\* C23: for each record of the event whose reserved attribute decodes to
\* (bucket, key), eventSucceeded invokes one deleteObject, for that bucket and
\* key; for each record without the reserved attribute it invokes nothing;
\* and when its promise is fulfilled the objects of all those records are
\* gone from the store.
C23_EventSucceededDeletesEachObject ==
    \A c \in EventSucceededCalls :
        /\ \A m \in DOMAIN calls[c].params :
               LET record == calls[c].params[m]
                   del    == Awaits(c, m).op
               IN  /\ RefersToObject(record) =>
                          /\ del \in OpsOf(c, "deleteObject")
                          /\ ops[del].input = [Bucket |-> RecordDecoded(record).bucketName,
                                               Key    |-> RecordDecoded(record).s3MessageKey]
                   /\ RecordValue(record) = "" => del = 0
        /\ Cardinality(OpsOf(c, "deleteObject"))
               = Cardinality({m \in DOMAIN calls[c].params : RefersToObject(calls[c].params[m])})
        /\ OpsOf(c, "getObject") = {}
        /\ calls[c].chains[1].state = "resolved" =>
               ObjectsOf(calls[c].params) \cap DOMAIN store = {}

\* eventSucceeded is fulfilled for a batch of two offloaded records, one of
\* them a record checkEvent has resolved, and both objects are gone.
C23_Witness ==
    \E c \in EventSucceededCalls :
        /\ calls[c].chains[1].state = "resolved"
        /\ Len(calls[c].params) = 2
        /\ Cardinality(ObjectsOf(calls[c].params)) = 2
        /\ \E m \in DOMAIN calls[c].params : calls[c].params[m].body = "message body"
        /\ DOMAIN store = {}


----------------------------------------------------------------------------
(* Properties of what sendMessage returns *)

\* What sendMessage call s returned to its caller, as a settled or pending
\* promise: the queue's request itself (line 148), or the promise of
\* wrapRequest(...).promise() (line 157).
Returned(s) ==
    IF calls[s].returned = "request"
    THEN [state |-> IF ops[calls[s].req].state = "ok" THEN "resolved"
                    ELSE IF ops[calls[s].req].state = "failed" THEN "rejected"
                    ELSE "pending",
          value |-> ops[calls[s].req].result]
    ELSE [state |-> calls[s].chains[Len(calls[s].chains)].state,
          value |-> calls[s].chains[Len(calls[s].chains)].value]

\* C24: when the promise sendMessage returned is fulfilled, its value is the
\* result of the queue's sendMessage primitive, and once the queue's primitive
\* has failed the promise settles only as rejected with the primitive's error.
C24_QueueResultReturnedUnchanged ==
    \A s \in SendCalls :
        calls[s].req # 0 =>
            /\ Returned(s).state = "resolved" =>
                   /\ ops[calls[s].req].state = "ok"
                   /\ Returned(s).value = ops[calls[s].req].result
            /\ (ops[calls[s].req].state = "failed" /\ Returned(s).state # "pending") =>
                   /\ Returned(s).state = "rejected"
                   /\ Returned(s).value = ops[calls[s].req].result


----------------------------------------------------------------------------
(* Properties of the order of the two deletions *)

\* C25: every deleteObject that a deleteMessage call issues is issued after
\* the queue deletion of that call has succeeded; when the queue deletion
\* fails, or has not completed, the call issues no deleteObject.
C25_ObjectDeletedAfterQueueDeletion ==
    \A d \in DeleteCalls :
        \A i \in OpsOf(d, "deleteObject") : calls[d].req \in ops[i].before


----------------------------------------------------------------------------
(* Specification of sending with the caller's transform *)

TransformOptions ==
    { [bucketName |-> "test-bucket", sendTransform |-> "splitLargeItem"],
      [bucketName |-> "test-bucket", sendTransform |-> "splitLargeItem",
       alwaysUseS3 |-> TRUE],
      [bucketName |-> "test-bucket", sendTransform |-> "splitLargeItem",
       messageSizeThreshold |-> 4],
      [bucketName |-> "test-bucket", sendTransform |-> "splitLargeItem",
       alwaysUseS3 |-> TRUE, messageSizeThreshold |-> 4] }

\* Bodies without a large item, with one, with nothing but one, with an empty
\* one; of a size under and over the threshold of 4.
TransformBodies == {"", "hello", "h:l", "head:large item", ":large item", "head:"}

TransformParams ==
    { [QueueUrl |-> "test-queue", MessageBody |-> b, MessageAttributes |-> a] :
        b \in TransformBodies,
        a \in {NoAttributes,
               [S3MessageBodyKey |-> StringAttribute("(other-bucket)8765-4321")]} }

InitTransform ==
    /\ options \in TransformOptions
    /\ store = NoObjects
    /\ queue = <<>>
    /\ ops = <<>>
    /\ calls = <<>>
    /\ minted = 0

NextTransform ==
    \/ CanCall("sendMessage")
           /\ \E params \in TransformParams, cb \in BOOLEAN : sendMessage(params, cb)
    \/ \E i \in PendingOps("sendMessage"), ok \in BOOLEAN : SqsSendMessageCompletes(i, ok)
    \/ \E i \in PendingOps("putObject"), ok \in BOOLEAN : PutObjectCompletes(i, ok)

SpecTransform == InitTransform /\ [][NextTransform]_vars

\* The transform's output for the message of call s.
TransformOutput(s) == splitLargeItem(calls[s].params)

\* With a caller's sendTransform, call s offloads exactly when the
\* transform's s3Content is non-empty and the message carries no reserved
\* attribute, and uploads that s3Content.
OutputDecides(s) ==
    /\ Offloads(s) <=> (/\ Truthy(TransformOutput(s).s3Content)
                        /\ ~HasReserved(calls[s].params))
    /\ Offloads(s) <=> OpsOf(s, "putObject") # {}
    /\ \A i \in OpsOf(s, "putObject") : ops[i].input.Body = TransformOutput(s).s3Content

\* C26 as stated: with a caller's sendTransform, a sendMessage call offloads
\* exactly when the transform's s3Content is non-empty and no reserved
\* attribute pre-exists, whatever the size of the message,
\* messageSizeThreshold and alwaysUseS3; the body given to the queue is the
\* transform's messageBody when that is non-empty and the minted key
\* otherwise.
C26_TransformOutputDecides ==
    \A s \in SendCalls :
        "sendTransform" \in DOMAIN options =>
            /\ OutputDecides(s)
            /\ \A i \in OpsOf(s, "sendMessage") :
                   ops[i].input.MessageBody =
                       IF Truthy(TransformOutput(s).messageBody)
                       THEN TransformOutput(s).messageBody
                       ELSE calls[s].s3MessageKey

\* C26 as amended: the offload decision as stated; the body given to the
\* queue is the transform's messageBody when that is non-empty, and otherwise
\* the minted key when the call offloads and the string value of the
\* pre-existing reserved attribute when it does not.
C26_TransformOutputDecidesKeyOrReference ==
    \A s \in SendCalls :
        "sendTransform" \in DOMAIN options =>
            /\ OutputDecides(s)
            /\ \A i \in OpsOf(s, "sendMessage") :
                   ops[i].input.MessageBody =
                       IF Truthy(TransformOutput(s).messageBody)
                       THEN TransformOutput(s).messageBody
                       ELSE IF Offloads(s) THEN calls[s].s3MessageKey
                       ELSE ExistingValue(calls[s].params)

\* A message under the threshold is offloaded without alwaysUseS3: the queue
\* is given the transform's messageBody and the store its s3Content.
C26_Witness ==
    /\ ~alwaysUseS3
    /\ \E s \in SendCalls :
           /\ calls[s].params.MessageBody = "h:l"
           /\ ~isLarge(calls[s].params, messageSizeThreshold)
           /\ Offloads(s)
           /\ \E i \in OpsOf(s, "sendMessage") : ops[i].input.MessageBody = "h"
           /\ \E i \in OpsOf(s, "putObject") :
                  ops[i].input.Body = "l" /\ ops[i].state = "ok"


----------------------------------------------------------------------------
(* Specification of a consumer whose options name another bucket, or none *)

ConsumerOptions == {[bucketName |-> "consumer-bucket"], [alwaysUseS3 |-> FALSE]}

\* The consumer's bucket holds an object under the key of the message's.
ConsumerObjects ==
    [x \in DOMAIN StoredObjects \cup {<<"consumer-bucket", "8765-4321">>} |->
        IF x \in DOMAIN StoredObjects THEN StoredObjects[x] ELSE "consumer's object"]

ConsumerEvents ==
    { <<OffloadedRecord>>,
      <<OffloadedRecord, PlainRecord>>,
      <<EmptyObjectRecord, OffloadedRecord>>,
      <<NoBucketRecord>> }

InitConsumer ==
    /\ options \in ConsumerOptions
    /\ store = ConsumerObjects
    /\ queue = Held(<<OffloadedMessage>>)
    /\ ops = <<>>
    /\ calls = <<>>
    /\ minted = 0

\* The consumer polls the queue, or handles events: its calls so far are all
\* of the one kind.
PollsQueue == \A c \in 1..Len(calls) : calls[c].api \in {"receiveMessage", "deleteMessage"}

HandlesEvents == \A c \in 1..Len(calls) : calls[c].api \in {"checkEvent", "eventSucceeded"}

NextConsumer ==
    \/ PollsQueue /\ Once("receiveMessage")
           /\ \E cb \in BOOLEAN : receiveMessage([QueueUrl |-> "test-queue"], cb)
    \/ \E i \in PendingOps("receiveMessage"), ok \in BOOLEAN, n \in 0..Len(queue) :
           \E handles \in [1..n -> ReceiptHandles] : SqsReceiveMessageCompletes(i, ok, n, handles)
    \/ \E i \in PendingOps("getObject"), ok \in BOOLEAN :
           calls[ops[i].call].api = "receiveMessage" /\ GetObjectCompletes(i, ok)
    \/ PollsQueue /\ Once("deleteMessage")
           /\ \E h \in ReceivedHandles, cb \in BOOLEAN :
                  deleteMessage([QueueUrl |-> "test-queue", ReceiptHandle |-> h], cb)
    \/ \E c \in 1..Len(calls) : promise(c)
    \/ \E i \in PendingOps("deleteMessage"), ok \in BOOLEAN : SqsDeleteMessageCompletes(i, ok)
    \/ \E i \in PendingOps("deleteObject"), ok \in BOOLEAN :
           calls[ops[i].call].api = "deleteMessage" /\ DeleteObjectCompletes(i, ok)
    \/ HandlesEvents /\ Once("checkEvent") /\ \E event \in ConsumerEvents : checkEvent(event)
    \/ \E i \in PendingOps("getObject"), ok \in BOOLEAN : CheckEventGetObjectCompletes(i, ok)
    \/ HandlesEvents /\ Once("eventSucceeded")
           /\ \E event \in ConsumerEvents : eventSucceeded(event)
    \/ \E i \in PendingOps("deleteObject"), ok \in BOOLEAN :
           EventSucceededDeleteObjectCompletes(i, ok)

SpecConsumer == InitConsumer /\ [][NextConsumer]_vars


\* The object-store primitives of the calls so far.
ObjectStoreOps == {i \in 1..Len(ops) : ops[i].svc = "s3"}

\* Primitive i of a receiveMessage call is for an offloaded message the queue
\* returned, with the bucket and key its reserved attribute decodes to.
FromAttribute(i) ==
    \E m \in DOMAIN ReturnedByQueue(ops[i].call) :
        /\ IsOffloaded(ReturnedByQueue(ops[i].call)[m])
        /\ ops[i].input = [Bucket |-> Decoded(ReturnedByQueue(ops[i].call)[m]).bucketName,
                           Key    |-> Decoded(ReturnedByQueue(ops[i].call)[m]).s3MessageKey]

\* Primitive i of an event hook is for a record of the event, with the bucket
\* and key its reserved attribute decodes to.
FromRecord(i) ==
    \E m \in DOMAIN calls[ops[i].call].params :
        /\ Awaits(ops[i].call, m).op = i
        /\ ops[i].input = [Bucket |-> RecordDecoded(calls[ops[i].call].params[m]).bucketName,
                           Key    |-> RecordDecoded(calls[ops[i].call].params[m]).s3MessageKey]

\* Primitive i of a deleteMessage call has the bucket its receipt handle
\* holds: the message's bucket when the handle is the message's handle
\* wrapped once.
FromReceiptHandle(i) ==
    LET d == ops[i].call
    IN  /\ ops[i].input.Bucket =
               extractBucketNameFromReceiptHandle(calls[d].params.ReceiptHandle)
        /\ \A r \in ReceiveCalls : \A m \in DOMAIN ReturnedByQueue(r) :
               LET message == ReturnedByQueue(r)[m]
               IN  (/\ IsOffloaded(message)
                    /\ calls[d].params.ReceiptHandle =
                           WrappedHandle(Decoded(message).bucketName,
                                         Decoded(message).s3MessageKey,
                                         message.ReceiptHandle)) =>
                       ops[i].input.Bucket = Decoded(message).bucketName

\* C27: whatever bucketName the consumer's options give, or none, every
\* getObject of receiveMessage and checkEvent and every deleteObject of
\* eventSucceeded has the bucket decoded from the reserved attribute, and
\* every deleteObject of deleteMessage the bucket decoded from the receipt
\* handle.
C27_ConsumerUsesCarriedBucket ==
    \A i \in ObjectStoreOps :
        CASE calls[ops[i].call].api = "receiveMessage" ->
                 ops[i].op = "getObject" /\ FromAttribute(i)
          [] calls[ops[i].call].api = "checkEvent" ->
                 ops[i].op = "getObject" /\ FromRecord(i)
          [] calls[ops[i].call].api = "eventSucceeded" ->
                 ops[i].op = "deleteObject" /\ FromRecord(i)
          [] calls[ops[i].call].api = "deleteMessage" ->
                 ops[i].op = "deleteObject" /\ FromReceiptHandle(i)

\* A consumer configured with its own bucket has deleted the message's
\* object, through deleteMessage on the handle receiveMessage gave it after
\* fetching the body from the message's bucket: the object under the same key
\* in its own bucket is still there.
C27_Witness ==
    /\ bucketName = "consumer-bucket"
    /\ <<"consumer-bucket", "8765-4321">> \in DOMAIN store
    /\ <<"test-bucket", "8765-4321">> \notin DOMAIN store
    /\ \E d \in DeleteCalls, r \in ReceiveCalls :
           /\ calls[d].params.ReceiptHandle =
                  WrappedHandle("test-bucket", "8765-4321", "receipthandle")
           /\ \E k \in Handed(r) : calls[r].chains[k].seen[1].Body = "message body"
           /\ \E i \in OpsOf(d, "deleteObject") : ops[i].state = "ok"

=============================================================================
